---------------------------- MODULE Spec2Model ----------------------------
(***************************************************************************)
(* Counter-pick scoring engine of d2d (the draft page and its legacy       *)
(* predecessor).                                                           *)
(*                                                                         *)
(* Units.  JavaScript numbers are modelled by integers on fixed grids:     *)
(*   - a winrate is kept in half percents          (110 is 55.0 %),        *)
(*   - a weight is kept in tenths                  (5 is 0.5),             *)
(*   - a log-odds value is kept in 1/10000          (2007 is 0.2007),      *)
(*   - a combined score is kept in thousandths of a percent                *)
(*                                                 (55000 is 55.000 %).    *)
(* Math.log is the table LnOdds; Math.exp is inverted through the same     *)
(* table with linear interpolation between neighbouring grid points.       *)
(***************************************************************************)
EXTENDS Integers, Sequences, FiniteSets, TLC

VARIABLES
    patch,        \* DraftPage: useState patch
    enemyPicks,   \* DraftPage: useState enemyPicks, five slots {hero, weight}
    data,         \* useCounterResults: useState data, an insertion-ordered object
    dataPatch,    \* history: the patch of the batch whose join called setData
    mBatches,     \* matchup load batches (Promise.all) still in flight
    loaded,       \* history: the patches whose dataset has been published
    rolesByHero,  \* useHeroRoles (in ResultsTable): useState rolesByHero
    rolesPatch,   \* history: the patch of the batch whose join called setRolesByHero
    rBatches,     \* role load batches of the mounted ResultsTable still in flight
    selectedRoles,\* ResultsTable: useState selectedRoles
    counterDir,   \* legacy server: the folder COUNTER_DIR/<date> on disk
    response      \* legacy server: the reply to the last GET /api/data

vars == << patch, enemyPicks, data, dataPatch, mBatches, loaded,
           rolesByHero, rolesPatch, rBatches, selectedRoles,
           counterDir, response >>

\* the state of useCounterResults
matchupVars == << data, dataPatch, mBatches, loaded >>

\* the state of one mounted ResultsTable
tableVars == << rolesByHero, rolesPatch, rBatches, selectedRoles >>

\* the state of the legacy server
serverVars == << counterDir, response >>

-----------------------------------------------------------------------------
(* Values *)

\* "no hero": the null of EnemyPick.hero
NoHero == "null"

\* "no patch yet": the dataset is still the initial {} of useState
NoPatch == "none"

\* hero slugs known to the hero manifest (heroes.json)
Slugs == {"axe", "zeus", "juggernaut"}

\* the order in which the heroes of a dataset were inserted
SlugOrder == << "axe", "zeus", "juggernaut" >>

\* spellings a JSON file may use for a slug
Names == Slugs \cup {"Axe", "Zeus", "Juggernaut"}

\* String.prototype.toLowerCase on the spellings above
toLowerCase(s) ==
    CASE s = "Axe" -> "axe"
      [] s = "Zeus" -> "zeus"
      [] s = "Juggernaut" -> "juggernaut"
      [] OTHER -> s

\* the slots of the draft page
NumSlots == 5

\* the weight every slot starts with (0.5)
DefaultWeight == 5

\* the slots the user operates on in the explored runs
MaxSlotTouched == 2

\* positions of the range input (min 0, max 1, step 0.1) that are explored
Weights == {0, 5, 10}

\* winrates (half percents) that the explored datasets hold: 0 % and 55 %
WinRates == {0, 110}

-----------------------------------------------------------------------------
(* Numeric helpers *)

clamp(x, lo, hi) == IF x < lo THEN lo ELSE IF x > hi THEN hi ELSE x

\* 0.005 and 0.995 as half percents
ClampLo == 1
ClampHi == 199

\* LnOdds[k] = 10000 * ln(k / (200 - k)), rounded, for k half percents
LnOdds ==
    << -52933, -45951, -41846, -38918, -36636, -34761, -33168, -31781, -30550, -29444, -28439, -27515,
       -26662, -25867, -25123, -24423, -23763, -23136, -22541, -21972, -21429, -20907, -20407, -19924,
       -19459, -19010, -18575, -18153, -17744, -17346, -16959, -16582, -16215, -15856, -15506, -15163,
       -14828, -14500, -14178, -13863, -13553, -13249, -12950, -12657, -12368, -12083, -11803, -11527,
       -11255, -10986, -10721, -10460, -10201, -9946, -9694, -9445, -9198, -8954, -8712, -8473,
       -8236, -8001, -7768, -7538, -7309, -7082, -6857, -6633, -6411, -6190, -5971, -5754,
       -5537, -5322, -5108, -4895, -4684, -4473, -4263, -4055, -3847, -3640, -3433, -3228,
       -3023, -2819, -2615, -2412, -2209, -2007, -1805, -1603, -1402, -1201, -1001, -800,
       -600, -400, -200, 0, 200, 400, 600, 800, 1001, 1201, 1402, 1603,
       1805, 2007, 2209, 2412, 2615, 2819, 3023, 3228, 3433, 3640, 3847, 4055,
       4263, 4473, 4684, 4895, 5108, 5322, 5537, 5754, 5971, 6190, 6411, 6633,
       6857, 7082, 7309, 7538, 7768, 8001, 8236, 8473, 8712, 8954, 9198, 9445,
       9694, 9946, 10201, 10460, 10721, 10986, 11255, 11527, 11803, 12083, 12368, 12657,
       12950, 13249, 13553, 13863, 14178, 14500, 14828, 15163, 15506, 15856, 16215, 16582,
       16959, 17346, 17744, 18153, 18575, 19010, 19459, 19924, 20407, 20907, 21429, 21972,
       22541, 23136, 23763, 24423, 25123, 25867, 26662, 27515, 28439, 29444, 30550, 31781,
       33168, 34761, 36636, 38918, 41846, 45951, 52933 >>

\* mutant: no clamp, so 0 % and 100 % give -Infinity and Infinity (here: log-odds
\* beyond every finite one)
pctToLogOdds_Unclamped(pct) ==
    IF pct < ClampLo THEN -999999999
    ELSE IF pct > ClampHi THEN 999999999
    ELSE LnOdds[pct]

\* pctToLogOdds: clamp(pct / 100, 0.005, 0.995), then ln(p / (1 - p))
pctToLogOdds(pct) == LnOdds[clamp(pct, ClampLo, ClampHi)]

\* the largest k in lo..hi with LnOdds[k] * den <= num (LnOdds is increasing)
RECURSIVE GridBelow(_, _, _, _)
GridBelow(lo, hi, num, den) ==
    IF lo >= hi THEN lo
    ELSE LET mid == (lo + hi + 1) \div 2
         IN  IF LnOdds[mid] * den <= num
             THEN GridBelow(mid, hi, num, den)
             ELSE GridBelow(lo, mid - 1, num, den)

\* the NaN that 0 / 0 yields
NaN == -999999

\* mutant: the first-order approximation 50 + 25 * lo of the logistic curve
logOddsToPct_Taylor(num, den) ==
    IF den = 0 THEN NaN ELSE 50000 + (5 * num) \div (2 * den)

\* logOddsToPct of the quotient num / den: 100 / (1 + exp(-lo)), in thousandths
\* of a percent; the sums are both 0 when den is 0, and 0 / 0 is NaN
logOddsToPct(num, den) ==
    LET k == GridBelow(ClampLo, ClampHi, num, den)
    IN  IF den = 0 THEN NaN
        ELSE IF k = ClampHi \/ num < LnOdds[ClampLo] * den
        THEN 500 * k
        ELSE 500 * k
             + (500 * (num - LnOdds[k] * den)) \div (den * (LnOdds[k + 1] - LnOdds[k]))

-----------------------------------------------------------------------------
(* Sequences and insertion-ordered objects *)

Range(s) == { s[i] : i \in DOMAIN s }

\* obj[key] = value on an insertion-ordered object: an existing key keeps its
\* place, a new key goes last
ObjSet(obj, key, value) ==
    IF \E i \in DOMAIN obj : obj[i].hero = key
    THEN [ i \in DOMAIN obj |->
             IF obj[i].hero = key THEN [hero |-> key, opp |-> value] ELSE obj[i] ]
    ELSE Append(obj, [hero |-> key, opp |-> value])

\* map[key] = value on a Record<string, number>; only lookups read it
MapSet(map, key, value) ==
    [ k \in (DOMAIN map) \cup {key} |-> IF k = key THEN value ELSE map[k] ]

EmptyMap == [ k \in {} |-> 0 ]


-----------------------------------------------------------------------------
(* The draft page: enemy slots *)

\* useState initial value of enemyPicks
InitialPicks == [ i \in 1..NumSlots |-> [hero |-> NoHero, weight |-> DefaultWeight] ]

RECURSIVE SlugsFrom(_, _)
\* the slugs of the non-empty slots i..Len(picks), in slot order
SlugsFrom(picks, i) ==
    IF i > Len(picks) THEN << >>
    ELSE IF picks[i].hero # NoHero
         THEN << picks[i].hero >> \o SlugsFrom(picks, i + 1)
         ELSE SlugsFrom(picks, i + 1)

\* enemyPicks.map((p) => p.hero?.slug).filter(Boolean)
selectedEnemySlugs(picks) == SlugsFrom(picks, 1)

\* mutant: the picker lists every hero
PickerOffers_All(picks, hero) == TRUE

\* the picker lists the heroes that are in no slot
PickerOffers(picks, hero) == hero \notin Range(selectedEnemySlugs(picks))

-----------------------------------------------------------------------------
(* The current scorer: the results memo of useCounterResults *)

\* winrate: null of a perEnemy entry
NullWinrate == -1

\* mutant: a weight of 0 falls back to the default (weight || 0.5)
EnemyWeight_ZeroIsDefault(pick) == IF pick.weight = 0 THEN DefaultWeight ELSE pick.weight

\* the weight a slot contributes
EnemyWeight(pick) == pick.weight

RECURSIVE EnemiesFrom(_, _)
\* enemyPicks.filter((p) => p.hero).map((p) => ({enemy, weight}))
EnemiesFrom(picks, i) ==
    IF i > Len(picks) THEN << >>
    ELSE IF picks[i].hero # NoHero
         THEN << [enemy |-> picks[i].hero, weight |-> EnemyWeight(picks[i])] >>
              \o EnemiesFrom(picks, i + 1)
         ELSE EnemiesFrom(picks, i + 1)

Enemies(picks) == EnemiesFrom(picks, 1)

\* mutant: the enemySet test is dropped
IsSelectedEnemy_Never(hero, enemies) == FALSE

\* enemySet.has(hero)
IsSelectedEnemy(hero, enemies) == \E i \in DOMAIN enemies : enemies[i].enemy = hero

\* mutant: a falsy test (!wr), which takes a winrate of 0 for a missing record
HasRecord_Truthy(oppMap, enemy) == enemy \in DOMAIN oppMap /\ oppMap[enemy] # 0

\* wr == null for oppMap?.[enemy]
HasRecord(oppMap, enemy) == enemy \in DOMAIN oppMap

RECURSIVE weightedSum_Unweighted(_, _, _)
\* mutant: the log-odds are summed without their weights
weightedSum_Unweighted(oppMap, enemies, i) ==
    IF i > Len(enemies) THEN 0
    ELSE (IF HasRecord(oppMap, enemies[i].enemy)
          THEN pctToLogOdds(oppMap[enemies[i].enemy])
          ELSE 0)
         + weightedSum_Unweighted(oppMap, enemies, i + 1)

RECURSIVE weightedSum(_, _, _)
\* the sum of weight * pctToLogOdds(wr) over the enemies i..n with a record
weightedSum(oppMap, enemies, i) ==
    IF i > Len(enemies) THEN 0
    ELSE (IF HasRecord(oppMap, enemies[i].enemy)
          THEN enemies[i].weight * pctToLogOdds(oppMap[enemies[i].enemy])
          ELSE 0)
         + weightedSum(oppMap, enemies, i + 1)

RECURSIVE weightTotal_AllEnemies(_, _, _)
\* mutant: the weight of an enemy counts whether or not there is a record
weightTotal_AllEnemies(oppMap, enemies, i) ==
    IF i > Len(enemies) THEN 0
    ELSE enemies[i].weight + weightTotal_AllEnemies(oppMap, enemies, i + 1)

RECURSIVE weightTotal(_, _, _)
\* the sum of the weights of the enemies i..n with a record
weightTotal(oppMap, enemies, i) ==
    IF i > Len(enemies) THEN 0
    ELSE (IF HasRecord(oppMap, enemies[i].enemy) THEN enemies[i].weight ELSE 0)
         + weightTotal(oppMap, enemies, i + 1)

\* mutant: an enemy without a record gets no entry (the push before continue is
\* dropped)
perEnemy_RecordsOnly(oppMap, enemies) ==
    LET kept == SelectSeq(enemies, LAMBDA e : HasRecord(oppMap, e.enemy))
    IN  [ i \in DOMAIN kept |->
            [ enemy |-> kept[i].enemy, winrate |-> oppMap[kept[i].enemy] ] ]

\* the perEnemy breakdown: one entry per enemy, null where there is no record
perEnemy(oppMap, enemies) ==
    [ i \in DOMAIN enemies |->
        [ enemy   |-> enemies[i].enemy,
          winrate |-> IF HasRecord(oppMap, enemies[i].enemy)
                      THEN oppMap[enemies[i].enemy] ELSE NullWinrate ] ]

\* mutant: < in place of <=
NotRankable_Strict(total) == total < 0

\* if (weightTotal <= 0) continue
NotRankable(total) == total <= 0

\* mutant: the comparator a.combined - b.combined
SortsBefore_Ascending(a, b) == a.combined - b.combined < 0

\* the comparator of out.sort: b.combined - a.combined, negative when a goes first
SortsBefore(a, b) == b.combined - a.combined < 0

RECURSIVE InsertSorted_BeforeTies(_, _)
\* mutant: an entry is put in front of the entries it ties with
InsertSorted_BeforeTies(s, r) ==
    IF s = << >> THEN << r >>
    ELSE IF ~SortsBefore(s[Len(s)], r)
         THEN Append(InsertSorted_BeforeTies(SubSeq(s, 1, Len(s) - 1), r), s[Len(s)])
         ELSE Append(s, r)

RECURSIVE InsertSorted(_, _)
\* r put into the sorted sequence s behind every entry it does not sort before
InsertSorted(s, r) ==
    IF s = << >> THEN << r >>
    ELSE IF SortsBefore(r, s[Len(s)])
         THEN Append(InsertSorted(SubSeq(s, 1, Len(s) - 1), r), s[Len(s)])
         ELSE Append(s, r)

RECURSIVE SortFrom(_, _, _)
\* Array.prototype.sort (stable) of s[i..], onto the sorted prefix acc
SortFrom(s, i, acc) ==
    IF i > Len(s) THEN acc ELSE SortFrom(s, i + 1, InsertSorted(acc, s[i]))

Sort(s) == SortFrom(s, 1, << >>)

RECURSIVE CandidatesFrom(_, _, _)
\* the body of for (const [hero, oppMap] of Object.entries(data))
CandidatesFrom(d, enemies, i) ==
    IF i > Len(d) THEN << >>
    ELSE LET hero  == d[i].hero
             opp   == d[i].opp
             total == weightTotal(opp, enemies, 1)
         IN  IF IsSelectedEnemy(hero, enemies) \/ NotRankable(total)
             THEN CandidatesFrom(d, enemies, i + 1)
             ELSE << [ hero     |-> hero,
                       combined |-> logOddsToPct(weightedSum(opp, enemies, 1), total),
                       perEnemy |-> perEnemy(opp, enemies) ] >>
                  \o CandidatesFrom(d, enemies, i + 1)

\* the results memo
results(d, picks) ==
    IF Len(selectedEnemySlugs(picks)) = 0 THEN << >>
    ELSE Sort(CandidatesFrom(d, Enemies(picks), 1))

\* what the hook returns in the current state
useCounterResults == results(data, enemyPicks)

-----------------------------------------------------------------------------
(* The legacy scorer: scoreCandidates of frontend_old *)

RECURSIVE lsum(_, _, _)
\* the sum of weight * clamp(winrate / 100, 0, 1), in half percents
lsum(oppMap, enemies, i) ==
    IF i > Len(enemies) THEN 0
    ELSE (IF HasRecord(oppMap, enemies[i].enemy)
          THEN enemies[i].weight * clamp(oppMap[enemies[i].enemy], 0, 200)
          ELSE 0)
         + lsum(oppMap, enemies, i + 1)

\* mutant: only the enemies of a weight above 0 count as selected
LegacyIsSelectedEnemy_PositiveWeight(hero, enemies) ==
    \E i \in DOMAIN enemies : enemies[i].enemy = hero /\ enemies[i].weight > 0

\* if (enemySet.has(hero)) continue in scoreCandidates
LegacyIsSelectedEnemy(hero, enemies) == \E i \in DOMAIN enemies : enemies[i].enemy = hero

\* mutant: the wsum test is dropped
LegacyNotRankable_Never(wsum) == FALSE

\* if (wsum <= 0) continue in scoreCandidates
LegacyNotRankable(wsum) == wsum <= 0

RECURSIVE LegacyCandidatesFrom(_, _, _)
\* the body of for (const hero of Object.keys(data))
LegacyCandidatesFrom(d, enemies, i) ==
    IF i > Len(d) THEN << >>
    ELSE LET hero == d[i].hero
             opp  == d[i].opp
             wsum == weightTotal(opp, enemies, 1)
         IN  IF LegacyIsSelectedEnemy(hero, enemies) \/ LegacyNotRankable(wsum)
             THEN LegacyCandidatesFrom(d, enemies, i + 1)
             ELSE << [ hero     |-> hero,
                       combined |-> IF wsum = 0 THEN NaN
                                    ELSE (500 * lsum(opp, enemies, 1)) \div wsum,
                       perEnemy |-> perEnemy(opp, enemies),
                       matchShare |-> 0 ] >>
                  \o LegacyCandidatesFrom(d, enemies, i + 1)

\* scoreCandidates(data, enemies)
scoreCandidates(d, enemies) == Sort(LegacyCandidatesFrom(d, enemies, 1))

-----------------------------------------------------------------------------
(* The legacy server: loadData and GET /api/data *)

\* values of parsed JSON, by what typeof and the truth test tell apart
JsUndefined == [type |-> "undefined"]

JsNull == [type |-> "null"]

JsString(s) == [type |-> "string", text |-> s]

JsNumber(n) == [type |-> "number", value |-> n]

JsArray(items) == [type |-> "array", items |-> items]

\* one element of matchups that is an object
Entry(opponent, winrate, matches) ==
    [type |-> "object", opponent |-> opponent, winrate |-> winrate, matches |-> matches]

\* the truth test of v || ...
Truthy(v) ==
    CASE v.type = "string" -> v.text # ""
      [] v.type = "number" -> v.value # 0
      [] v.type = "array" -> TRUE
      [] v.type = "object" -> TRUE
      [] OTHER -> FALSE

\* String(v || fallback)
StringOr(v, fallback) ==
    IF ~Truthy(v) THEN fallback
    ELSE IF v.type = "string" THEN v.text ELSE ToString(v.value)

\* the null of wr and mt
NoNumber == -1

\* typeof v === "number" ? v : null
NumberOrNull(v) == IF v.type = "number" THEN v.value ELSE NoNumber

\* mutant: the test of mt is dropped
SkipsEntry_IgnoresMatches(opp, wr, mt) == opp = "" \/ wr = NoNumber

\* if (!opp || wr == null || mt == null) continue
SkipsEntry(opp, wr, mt) == opp = "" \/ wr = NoNumber \/ mt = NoNumber

\* the contents of a file: readFile rejects, JSON.parse throws, the text null,
\* or an object with the fields hero and matchups
FileUnreadable == [kind |-> "unreadable"]

FileUnparseable == [kind |-> "unparseable"]

FileNull == [kind |-> "null"]

FileObject(hero, matchups) == [kind |-> "object", hero |-> hero, matchups |-> matchups]

\* obj.matchups || []
MatchupsOf(obj) == IF Truthy(obj.matchups) THEN obj.matchups.items ELSE << >>

\* the try block of loadData throws: readFile rejects, JSON.parse throws,
\* obj.hero of null throws, m.opponent of a null element throws
FileThrows(f) ==
    \/ f.content.kind # "object"
    \/ \E i \in DOMAIN MatchupsOf(f.content) : MatchupsOf(f.content)[i].type = "null"

\* String(obj.hero || path.basename(file, ".json")).toLowerCase()
HeroOf(f) == toLowerCase(StringOr(f.content.hero, f.base))

RECURSIVE EntriesFrom(_, _, _)
\* the body of for (const m of obj.matchups || []) from element i on
EntriesFrom(ms, i, acc) ==
    IF i > Len(ms) THEN acc
    ELSE LET m   == ms[i]
             opp == toLowerCase(StringOr(m.opponent, ""))
             wr  == NumberOrNull(m.winrate)
             mt  == NumberOrNull(m.matches)
         IN  IF SkipsEntry(opp, wr, mt) THEN EntriesFrom(ms, i + 1, acc)
             ELSE EntriesFrom(ms, i + 1,
                      [ opponents    |-> MapSet(acc.opponents, opp,
                                                [winrate |-> wr, matches |-> mt]),
                        totalMatches |-> acc.totalMatches + mt ])

RECURSIVE FilesFrom(_, _, _)
\* the body of for (const file of files) from file i on
FilesFrom(files, i, acc) ==
    IF i > Len(files) THEN acc
    ELSE LET f == files[i]
         IN  IF f.ext # "json" THEN FilesFrom(files, i + 1, acc)
             ELSE IF FileThrows(f) THEN FilesFrom(files, i + 1, acc)
             ELSE LET entry == EntriesFrom(MatchupsOf(f.content), 1,
                                           [opponents |-> EmptyMap, totalMatches |-> 0])
                  IN  IF DOMAIN entry.opponents # {}
                      THEN FilesFrom(files, i + 1, MapSet(acc, HeroOf(f), entry))
                      ELSE FilesFrom(files, i + 1, acc)

\* a settled promise
Resolved(v) == [rejected |-> FALSE, value |-> v]

Rejected == [rejected |-> TRUE, value |-> << >>]

\* fs.readdir(dir)
readdir(dir) == IF dir.readable THEN Resolved(dir.files) ELSE Rejected

\* promise.catch(() => fallback)
CatchWith(promise, fallback) == IF promise.rejected THEN Resolved(fallback) ELSE promise

\* loadData(date), dir being the folder of that date
loadData(dir) ==
    LET files == CatchWith(readdir(dir), << >>)
    IN  IF files.rejected THEN Rejected
        ELSE Resolved(FilesFrom(files.value, 1, EmptyMap))

\* no request has been answered
NoResponse == [status |-> 0, body |-> EmptyMap]

\* the handler's promise rejected: no reply is sent by the handler
HandlerFailed == [status |-> 500, body |-> EmptyMap]

\* the state of a server nobody has called, with no folder for the date
ServerIdle ==
    /\ counterDir = [readable |-> FALSE, files |-> << >>]
    /\ response = NoResponse

\* app.get("/api/data"), date being String(req.query.date || "")
apiData(date) ==
    /\ response' =
          IF date = "" THEN [status |-> 400, body |-> [error |-> "missing date"]]
          ELSE LET loading == loadData(counterDir)
               IN  IF loading.rejected THEN HandlerFailed
                   ELSE [status |-> 200, body |-> loading.value]
    /\ UNCHANGED << counterDir, patch, enemyPicks, matchupVars, tableVars >>

-----------------------------------------------------------------------------
(* Loading the matchup files of a patch: the effect of useCounterResults *)

\* the values the patch argument takes in the explored runs; PATCHES lists the
\* first one
Patches == {"7.39D", "7.40"}

\* PATCHES[0]
InitialPatch == "7.39D"

\* the slugs whose files a batch fetches, in fetch order
heroesIndexCache == << "axe", "zeus" >>

\* the batches that may be in flight at once in the explored runs
MaxInFlight == 2

\* the initial {} of useState, and the acc of a batch before its first file
EmptyData == << >>

\* a fetch that has not settled
Pending == [st |-> "pending"]

\* a fetch or r.json() that failed: .catch(() => null)
Null == [st |-> "null"]

\* a fetch whose body parsed as JSON
Json(body) == [st |-> "json", body |-> body]

\* the spelling with a capital, as a file may hold it
Capital(slug) ==
    CASE slug = "axe" -> "Axe"
      [] slug = "zeus" -> "Zeus"
      [] slug = "juggernaut" -> "Juggernaut"

\* the winrate (half percents) the explored files of a patch record
WinrateIn(p) == IF p = InitialPatch THEN 110 ELSE 80

\* the opponents the explored file of a slug lists
OpponentsOf(slug) == IF slug = "axe" THEN << "Zeus" >> ELSE << "Axe" >>

\* a file of type MatchupFile
WellFormed(p, slug) ==
    Json([ hero     |-> Capital(slug),
           matchups |-> [ i \in DOMAIN OpponentsOf(slug) |->
                            [opponent |-> OpponentsOf(slug)[i], winrate |-> WinrateIn(p)] ] ])

\* JSON without a matchups array
NoMatchups(p, slug) == Json([ hero |-> slug ])

\* JSON without a hero string
NoHeroField(p, slug) ==
    Json([ matchups |-> [ i \in DOMAIN OpponentsOf(slug) |->
                            [opponent |-> OpponentsOf(slug)[i], winrate |-> WinrateIn(p)] ] ])

\* JSON with a matchup entry that has no opponent string
NoOpponent(p, slug) ==
    Json([ hero |-> slug, matchups |-> << [winrate |-> WinrateIn(p)] >> ])

\* what the fetch of one file may settle to
Malformed(p, slug) == { NoMatchups(p, slug), NoHeroField(p, slug), NoOpponent(p, slug) }

FileShapes(p, slug) == { Null, WellFormed(p, slug) } \cup Malformed(p, slug)

\* if (!f) continue
IsNull(f) == f.st = "null"

\* the statements of the loop body that throw a TypeError on file f:
\* for (const m of f.matchups), m.opponent.toLowerCase(), f.hero.toLowerCase()
Throws(f) ==
    /\ f.st = "json"
    /\ \/ "matchups" \notin DOMAIN f.body
       \/ \E i \in DOMAIN f.body.matchups : "opponent" \notin DOMAIN f.body.matchups[i]
       \/ "hero" \notin DOMAIN f.body

RECURSIVE MapFrom(_, _, _)
\* for (const m of f.matchups) map[m.opponent.toLowerCase()] = m.winrate
MapFrom(matchups, i, map) ==
    IF i > Len(matchups) THEN map
    ELSE MapFrom(matchups, i + 1,
                 MapSet(map, toLowerCase(matchups[i].opponent), matchups[i].winrate))

RECURSIVE AccFrom(_, _, _)
\* for (const f of files) { if (!f) continue; ...; acc[f.hero.toLowerCase()] = map }
AccFrom(files, i, acc) ==
    IF i > Len(files) THEN acc
    ELSE IF files[i].st # "json" THEN AccFrom(files, i + 1, acc)
         ELSE AccFrom(files, i + 1,
                      ObjSet(acc, toLowerCase(files[i].body.hero),
                             MapFrom(files[i].body.matchups, 1, EmptyMap)))

\* the then-callback throws before setData
JoinThrows(files) == \E i \in DOMAIN files : Throws(files[i])

\* how the then-callback ends: it calls setData(acc), or a TypeError leaves it
JoinOutcome(files) == IF JoinThrows(files) THEN "TypeError" ELSE "setData"

\* mutant: the join takes the first settled fetch for the whole batch
AllSettled_Any(files) == \E i \in DOMAIN files : files[i] # Pending

\* Promise.all resolves when every fetch has settled
AllSettled(files) == \A i \in DOMAIN files : files[i] # Pending

\* the batch the effect starts for patch p
NewBatch(p) == [ patch |-> p, files |-> [ i \in DOMAIN heroesIndexCache |-> Pending ] ]

\* s without its entry b
RemoveAt(s, b) == SubSeq(s, 1, b - 1) \o SubSeq(s, b + 1, Len(s))

\* the roles of the explored role files of a patch
RolesIn(p, slug) ==
    IF slug = "axe" THEN << "offlane" >>
    ELSE IF p = InitialPatch THEN << "mid" >> ELSE << "support", "hard support" >>

\* a role file with a hero string and a roles array
WellFormedRoles(p, slug) == Json([ hero |-> Capital(slug), roles |-> RolesIn(p, slug) ])

\* JSON without a hero
RolesNoHero(p, slug) == Json([ roles |-> RolesIn(p, slug) ])

\* JSON whose roles are not a list
RolesNoList(p, slug) == Json([ hero |-> slug ])

\* what the fetch of one role file may settle to; Null also stands for !r.ok
RoleFileShapes(p, slug) ==
    { Null, WellFormedRoles(p, slug), RolesNoHero(p, slug), RolesNoList(p, slug) }

\* the initial {} of useState rolesByHero
EmptyRoles == [ k \in {} |-> << >> ]

\* if (!f || !f.hero) continue
RoleFileSkipped(f) == f.st # "json" \/ "hero" \notin DOMAIN f.body

\* Array.isArray(f.roles) ? f.roles : []
RolesOfFile(f) == IF "roles" \in DOMAIN f.body THEN f.body.roles ELSE << >>

RECURSIVE RolesAccFrom_StopsAtBad(_, _, _)
\* mutant: the loop ends at the first file it cannot use
RolesAccFrom_StopsAtBad(files, i, acc) ==
    IF i > Len(files) THEN acc
    ELSE IF RoleFileSkipped(files[i]) \/ "roles" \notin DOMAIN files[i].body THEN acc
         ELSE RolesAccFrom_StopsAtBad(files, i + 1,
                  MapSet(acc, toLowerCase(files[i].body.hero), RolesOfFile(files[i])))

RECURSIVE RolesAccFrom(_, _, _)
\* for (const f of files) { ...; acc[heroSlug] = roles }
RolesAccFrom(files, i, acc) ==
    IF i > Len(files) THEN acc
    ELSE IF RoleFileSkipped(files[i]) THEN RolesAccFrom(files, i + 1, acc)
         ELSE RolesAccFrom(files, i + 1,
                           MapSet(acc, toLowerCase(files[i].body.hero), RolesOfFile(files[i])))

\* ALL_ROLES
ALL_ROLES == << "carry", "mid", "offlane", "support", "hard support" >>

\* {selectedEnemySlugs.length > 0 && <ResultsTable .../>}
TableMounted(picks) == Len(selectedEnemySlugs(picks)) > 0

\* a batch has settled and its then-callback has not run yet: the callback runs
\* before any other event is handled
JoinPending ==
    \/ \E b \in DOMAIN mBatches : AllSettled(mBatches[b].files)
    \/ \E b \in DOMAIN rBatches : AllSettled(rBatches[b].files)

\* a ResultsTable mounts: fresh state, and the effect of useHeroRoles starts a batch
MountTable ==
    /\ rolesByHero' = EmptyRoles
    /\ rolesPatch' = NoPatch
    /\ rBatches' = << NewBatch(patch) >>
    /\ selectedRoles' = ALL_ROLES

\* the ResultsTable unmounts: its state is dropped, and the callbacks of its
\* batches in flight set the state of no mounted component
UnmountTable ==
    /\ rolesByHero' = EmptyRoles
    /\ rolesPatch' = NoPatch
    /\ rBatches' = << >>
    /\ selectedRoles' = ALL_ROLES

chooseHero(idx, hero) ==
    /\ ~JoinPending
    /\ PickerOffers(enemyPicks, hero)
    /\ enemyPicks' = [enemyPicks EXCEPT ![idx].hero = hero]
    /\ IF TableMounted(enemyPicks) THEN UNCHANGED tableVars ELSE MountTable
    /\ UNCHANGED << serverVars, patch, matchupVars >>

\* mutant: Clear also puts the weight back to its default
clearPick_ResetsWeight(idx) ==
    /\ ~JoinPending
    /\ enemyPicks[idx].hero # NoHero
    /\ enemyPicks' = [enemyPicks EXCEPT ![idx] = [hero |-> NoHero, weight |-> DefaultWeight]]
    /\ IF TableMounted(enemyPicks') THEN UNCHANGED tableVars ELSE UnmountTable
    /\ UNCHANGED << serverVars, patch, matchupVars >>

clearPick(idx) ==
    /\ ~JoinPending
    /\ enemyPicks[idx].hero # NoHero
    /\ enemyPicks' = [enemyPicks EXCEPT ![idx].hero = NoHero]
    /\ IF TableMounted(enemyPicks') THEN UNCHANGED tableVars ELSE UnmountTable
    /\ UNCHANGED << serverVars, patch, matchupVars >>

updateWeight(idx, weight) ==
    /\ ~JoinPending
    /\ enemyPicks[idx].weight # weight
    /\ enemyPicks' = [enemyPicks EXCEPT ![idx].weight = weight]
    /\ UNCHANGED << serverVars, patch, matchupVars, tableVars >>

\* the patch select: setPatch, then the effects for the new patch start a
\* matchup batch and, in a mounted ResultsTable, a role batch
setPatch(p) ==
    /\ ~JoinPending
    /\ p # patch
    /\ Len(mBatches) < MaxInFlight
    /\ Len(rBatches) < MaxInFlight
    /\ patch' = p
    /\ mBatches' = Append(mBatches, NewBatch(p))
    /\ rBatches' = IF TableMounted(enemyPicks) THEN Append(rBatches, NewBatch(p))
                   ELSE rBatches
    /\ UNCHANGED << serverVars, enemyPicks, data, dataPatch, loaded,
                    rolesByHero, rolesPatch, selectedRoles >>

\* mutant: a fetch that failed is started again within its batch
SettleFetch_Retry(b, i, f) ==
    /\ ~JoinPending
    /\ mBatches[b].files[i] \in {Pending, Null}
    /\ mBatches' = [mBatches EXCEPT
                       ![b].files[i] = IF mBatches[b].files[i] = Null THEN Pending ELSE f]
    /\ UNCHANGED << serverVars, patch, enemyPicks, data, dataPatch, loaded, tableVars >>

\* one fetch(...).then((r) => r.json()).catch(() => null) of useCounterResults settles
SettleFetch(b, i, f) ==
    /\ ~JoinPending
    /\ mBatches[b].files[i] = Pending
    /\ mBatches' = [mBatches EXCEPT ![b].files[i] = f]
    /\ UNCHANGED << serverVars, patch, enemyPicks, data, dataPatch, loaded, tableVars >>

\* the then-callback of Promise.all in useCounterResults: build acc, setData(acc)
Join(b) ==
    /\ AllSettled(mBatches[b].files)
    /\ mBatches' = RemoveAt(mBatches, b)
    /\ IF JoinOutcome(mBatches[b].files) = "TypeError"
       THEN UNCHANGED << data, dataPatch, loaded >>
       ELSE /\ data' = AccFrom(mBatches[b].files, 1, EmptyData)
            /\ dataPatch' = mBatches[b].patch
            /\ loaded' = loaded \cup {mBatches[b].patch}
    /\ UNCHANGED << serverVars, patch, enemyPicks, tableVars >>

\* one fetch(...).then((r) => (r.ok ? r.json() : null)).catch(() => null) of
\* useHeroRoles settles
SettleRoleFetch(b, i, f) ==
    /\ ~JoinPending
    /\ rBatches[b].files[i] = Pending
    /\ rBatches' = [rBatches EXCEPT ![b].files[i] = f]
    /\ UNCHANGED << serverVars, patch, enemyPicks, matchupVars, rolesByHero, rolesPatch, selectedRoles >>

\* the then-callback of Promise.all in useHeroRoles: build acc, setRolesByHero(acc)
JoinRoles(b) ==
    /\ AllSettled(rBatches[b].files)
    /\ rBatches' = RemoveAt(rBatches, b)
    /\ rolesByHero' = RolesAccFrom(rBatches[b].files, 1, EmptyRoles)
    /\ rolesPatch' = rBatches[b].patch
    /\ UNCHANGED << serverVars, patch, enemyPicks, matchupVars, selectedRoles >>

\* state after the first render: the effect has started the first batch
LoadInit ==
    /\ patch = InitialPatch
    /\ enemyPicks = InitialPicks
    /\ data = EmptyData
    /\ dataPatch = NoPatch
    /\ mBatches = << NewBatch(InitialPatch) >>
    /\ loaded = {}
    /\ rolesByHero = EmptyRoles
    /\ rolesPatch = NoPatch
    /\ rBatches = << >>
    /\ selectedRoles = ALL_ROLES
    /\ ServerIdle

LoadNext ==
    \/ \E p \in Patches : setPatch(p)
    \/ \E b \in DOMAIN mBatches, i \in DOMAIN heroesIndexCache :
          \E f \in FileShapes(mBatches[b].patch, heroesIndexCache[i]) : SettleFetch(b, i, f)
    \/ \E b \in DOMAIN mBatches : Join(b)

SpecLoad == LoadInit /\ [][LoadNext]_vars

\* the then-callback of a settled Promise.all is a queued microtask: it runs
SpecLoadLive == SpecLoad /\ WF_vars(\E b \in DOMAIN mBatches : Join(b))

\* the files explored when both loads run side by side
PatchNext ==
    \/ \E p \in Patches : setPatch(p)
    \/ \E b \in DOMAIN mBatches, i \in DOMAIN heroesIndexCache :
          \E f \in { Null, WellFormed(mBatches[b].patch, heroesIndexCache[i]) } :
              SettleFetch(b, i, f)
    \/ \E b \in DOMAIN mBatches : Join(b)
    \/ \E b \in DOMAIN rBatches, i \in DOMAIN heroesIndexCache :
          \E f \in { Null, WellFormedRoles(rBatches[b].patch, heroesIndexCache[i]) } :
              SettleRoleFetch(b, i, f)
    \/ \E b \in DOMAIN rBatches : JoinRoles(b)
    \/ chooseHero(1, "zeus")
    \/ clearPick(1)

SpecPatch == LoadInit /\ [][PatchNext]_vars

-----------------------------------------------------------------------------
(* Scoring over bounded datasets *)

\* the opponent maps a hero of the explored datasets may have
Rows(hero) ==
    UNION { [ opps -> WinRates ] : opps \in SUBSET (Slugs \ {hero}) }

\* the explored datasets: every hero present, in SlugOrder
DataFamily ==
    { [ i \in DOMAIN SlugOrder |-> [hero |-> SlugOrder[i], opp |-> rows[SlugOrder[i]]] ] :
        rows \in { r \in [ Slugs -> UNION { Rows(h) : h \in Slugs } ] :
                     \A h \in Slugs : r[h] \in Rows(h) } }

\* the first batch has published one of the explored datasets; no slot is filled
ScoreInit ==
    /\ patch = InitialPatch
    /\ enemyPicks = InitialPicks
    /\ data \in DataFamily
    /\ dataPatch = InitialPatch
    /\ mBatches = << >>
    /\ loaded = {InitialPatch}
    /\ rolesByHero = EmptyRoles
    /\ rolesPatch = NoPatch
    /\ rBatches = << >>
    /\ selectedRoles = ALL_ROLES
    /\ ServerIdle

ScoreNext ==
    \/ \E idx \in 1..MaxSlotTouched, hero \in Slugs : chooseHero(idx, hero)
    \/ \E idx \in 1..MaxSlotTouched : clearPick(idx)
    \/ \E idx \in 1..MaxSlotTouched, weight \in Weights : updateWeight(idx, weight)

SpecScore == ScoreInit /\ [][ScoreNext]_vars

\* winrates (half percents) of the datasets explored for the combined score:
\* 0 %, 40 %, 55 % and 100 %
FineWinRates == {0, 80, 110, 200}

\* datasets in which juggernaut has any records against axe and zeus
CombineFamily ==
    { << [hero |-> "axe", opp |-> [ k \in {"zeus"} |-> 80 ]],
         [hero |-> "zeus", opp |-> [ k \in {"axe"} |-> 200 ]],
         [hero |-> "juggernaut", opp |-> row] >> :
        row \in UNION { [ opps -> FineWinRates ] : opps \in SUBSET {"axe", "zeus"} } }

\* the first batch has published one of these datasets; no slot is filled
CombineInit ==
    /\ patch = InitialPatch
    /\ enemyPicks = InitialPicks
    /\ data \in CombineFamily
    /\ dataPatch = InitialPatch
    /\ mBatches = << >>
    /\ loaded = {InitialPatch}
    /\ rolesByHero = EmptyRoles
    /\ rolesPatch = NoPatch
    /\ rBatches = << >>
    /\ selectedRoles = ALL_ROLES
    /\ ServerIdle

SpecCombine == CombineInit /\ [][ScoreNext]_vars

\* winrates (half percents) explored for the conversions: every half percent
\* from 0 % to 100 % and two values on either side of that range
RoundTripRates == -2..202

\* datasets in which juggernaut has a record of any of these winrates against
\* axe and one of 0 % or 100 % against zeus
RoundTripFamily ==
    { << [hero |-> "axe", opp |-> [ k \in {"zeus"} |-> 110 ]],
         [hero |-> "zeus", opp |-> EmptyMap],
         [hero |-> "juggernaut",
          opp |-> [ k \in {"axe", "zeus"} |-> IF k = "axe" THEN wr ELSE edge ]] >> :
        wr \in RoundTripRates, edge \in {0, 200} }

\* the first batch has published one of these datasets; no slot is filled
RoundTripInit ==
    /\ patch = InitialPatch
    /\ enemyPicks = InitialPicks
    /\ data \in RoundTripFamily
    /\ dataPatch = InitialPatch
    /\ mBatches = << >>
    /\ loaded = {InitialPatch}
    /\ rolesByHero = EmptyRoles
    /\ rolesPatch = NoPatch
    /\ rBatches = << >>
    /\ selectedRoles = ALL_ROLES
    /\ ServerIdle

SpecRoundTrip == RoundTripInit /\ [][ScoreNext]_vars

-----------------------------------------------------------------------------
(* The role filter of ResultsTable *)

\* mutant: an empty selection filters too
isFilteringActive_EmptyFilters(selected) == Len(selected) < Len(ALL_ROLES)

\* selectedRoles.length > 0 && selectedRoles.length < ALL_ROLES.length
isFilteringActive(selected) == Len(selected) > 0 /\ Len(selected) < Len(ALL_ROLES)

\* mutant: a hero the role map does not know passes for every role
RolesFor_UnknownHasAll(roleMap, hero) ==
    IF hero \in DOMAIN roleMap THEN roleMap[hero] ELSE ALL_ROLES

\* rolesByHero[r.hero] || []
RolesFor(roleMap, hero) == IF hero \in DOMAIN roleMap THEN roleMap[hero] ELSE << >>

\* the callback of results.filter: false without roles, else roles.some(selected.has)
KeepsRow(roleMap, selected, r) ==
    LET roles == RolesFor(roleMap, r.hero)
    IN  IF Len(roles) = 0 THEN FALSE
        ELSE \E k \in DOMAIN roles : roles[k] \in Range(selected)

RECURSIVE FilterFrom_Reversed(_, _, _, _)
\* mutant: the kept rows come out in reverse order
FilterFrom_Reversed(res, roleMap, selected, i) ==
    IF i > Len(res) THEN << >>
    ELSE FilterFrom_Reversed(res, roleMap, selected, i + 1)
         \o (IF KeepsRow(roleMap, selected, res[i]) THEN << res[i] >> ELSE << >>)

RECURSIVE FilterFrom(_, _, _, _)
\* Array.prototype.filter over res[i..]
FilterFrom(res, roleMap, selected, i) ==
    IF i > Len(res) THEN << >>
    ELSE (IF KeepsRow(roleMap, selected, res[i]) THEN << res[i] >> ELSE << >>)
         \o FilterFrom(res, roleMap, selected, i + 1)

\* the displayedResults memo
displayedResults(res, roleMap, selected) ==
    IF ~isFilteringActive(selected) THEN res
    ELSE FilterFrom(res, roleMap, selected, 1)

\* mutant: the role is appended whether or not it is selected already
toggleRole_AlwaysAppends(role) ==
    /\ ~JoinPending
    /\ TableMounted(enemyPicks)
    /\ Len(selectedRoles) < Len(ALL_ROLES) + 1
    /\ selectedRoles' = Append(selectedRoles, role)
    /\ UNCHANGED << serverVars, patch, enemyPicks, matchupVars, rolesByHero, rolesPatch, rBatches >>

\* prev.includes(role) ? prev.filter((r) => r !== role) : [...prev, role]
toggleRole(role) ==
    /\ ~JoinPending
    /\ TableMounted(enemyPicks)
    /\ selectedRoles' = IF role \in Range(selectedRoles)
                        THEN SelectSeq(selectedRoles, LAMBDA r : r # role)
                        ELSE Append(selectedRoles, role)
    /\ UNCHANGED << serverVars, patch, enemyPicks, matchupVars, rolesByHero, rolesPatch, rBatches >>

\* the Add all button
setAll ==
    /\ ~JoinPending
    /\ TableMounted(enemyPicks)
    /\ selectedRoles # ALL_ROLES
    /\ selectedRoles' = ALL_ROLES
    /\ UNCHANGED << serverVars, patch, enemyPicks, matchupVars, rolesByHero, rolesPatch, rBatches >>

\* the Clear all button
clearAll ==
    /\ ~JoinPending
    /\ TableMounted(enemyPicks)
    /\ selectedRoles # << >>
    /\ selectedRoles' = << >>
    /\ UNCHANGED << serverVars, patch, enemyPicks, matchupVars, rolesByHero, rolesPatch, rBatches >>

\* the datasets explored under the filter: every hero has a record against
\* every other hero
FilterFamily ==
    { << [hero |-> "axe", opp |-> [ k \in {"zeus", "juggernaut"} |-> IF k = "zeus" THEN a ELSE b ]],
         [hero |-> "zeus", opp |-> [ k \in {"axe", "juggernaut"} |-> 110 ]],
         [hero |-> "juggernaut", opp |-> [ k \in {"axe", "zeus"} |-> b ]] >> :
        a \in WinRates, b \in WinRates }

\* the first batch has published one of these datasets; no slot is filled
FilterInit ==
    /\ patch = InitialPatch
    /\ enemyPicks = InitialPicks
    /\ data \in FilterFamily
    /\ dataPatch = InitialPatch
    /\ mBatches = << >>
    /\ loaded = {InitialPatch}
    /\ rolesByHero = EmptyRoles
    /\ rolesPatch = NoPatch
    /\ rBatches = << >>
    /\ selectedRoles = ALL_ROLES
    /\ ServerIdle

FilterNext ==
    \/ \E hero \in Slugs : chooseHero(1, hero)
    \/ clearPick(1)
    \/ \E b \in DOMAIN rBatches, i \in DOMAIN heroesIndexCache :
          \E f \in RoleFileShapes(rBatches[b].patch, heroesIndexCache[i]) :
              SettleRoleFetch(b, i, f)
    \/ \E b \in DOMAIN rBatches : JoinRoles(b)
    \/ \E role \in Range(ALL_ROLES) : toggleRole(role)
    \/ setAll
    \/ clearAll

SpecFilter == FilterInit /\ [][FilterNext]_vars

-----------------------------------------------------------------------------
(* The legacy server over bounded folders *)

\* the elements a matchups array of the explored files holds at most
MaxEntries == 2

\* the explored elements: null, two complete entries (one with a winrate and a
\* match count of 0), and entries without an opponent, with a winrate that is
\* a string, and without a match count
Entries ==
    { JsNull,
      Entry(JsString("Zeus"), JsNumber(110), JsNumber(100)),
      Entry(JsString("Juggernaut"), JsNumber(0), JsNumber(0)),
      Entry(JsUndefined, JsNumber(110), JsNumber(100)),
      Entry(JsString("Zeus"), JsString("55"), JsNumber(100)),
      Entry(JsString("Juggernaut"), JsNumber(110), JsUndefined) }

\* the explored contents of <base>.json: the hero field is absent or the
\* capitalised slug, so a hero is named by one file only
Contents(base) ==
    { FileUnreadable, FileUnparseable, FileNull }
    \cup { FileObject(hero, matchups) :
             hero \in { JsUndefined, JsString(Capital(base)) },
             matchups \in { JsUndefined }
                 \cup { JsArray(items) :
                          items \in UNION { [ 1..n -> Entries ] : n \in 0..MaxEntries } } }

\* the explored contents of the second file: unreadable, one complete entry,
\* or one entry without a match count
FewContents(base) ==
    { FileUnreadable,
      FileObject(JsString(Capital(base)),
                 JsArray(<< Entry(JsString("Axe"), JsNumber(80), JsNumber(7)) >>)),
      FileObject(JsUndefined,
                 JsArray(<< Entry(JsString("Axe"), JsNumber(80), JsUndefined) >>)) }

\* a file of the folder
File(base, ext, content) == [base |-> base, ext |-> ext, content |-> content]

\* the explored folders: an unreadable one, and the readable ones that hold
\* any of axe.json, juggernaut.txt (complete entries, but no .json name) and
\* zeus.json, in the order readdir lists them
Folders ==
    { [readable |-> FALSE, files |-> << >>] }
    \cup { [readable |-> TRUE, files |-> a \o t \o z] :
             a \in { << >> } \cup { << File("axe", "json", c) >> : c \in Contents("axe") },
             t \in { << >>,
                     << File("juggernaut", "txt",
                             FileObject(JsUndefined,
                                 JsArray(<< Entry(JsString("Axe"), JsNumber(110),
                                                  JsNumber(100)) >>))) >> },
             z \in { << >> } \cup { << File("zeus", "json", c) >> : c \in FewContents("zeus") } }

\* the date parameter of the explored requests: absent or a date
Dates == {"", "2025-08-01"}

\* the folder of the date is any of the explored ones; nobody has called yet
ServerInit ==
    /\ counterDir \in Folders
    /\ response = NoResponse
    /\ patch = InitialPatch
    /\ enemyPicks = InitialPicks
    /\ data = EmptyData
    /\ dataPatch = NoPatch
    /\ mBatches = << >>
    /\ loaded = {}
    /\ rolesByHero = EmptyRoles
    /\ rolesPatch = NoPatch
    /\ rBatches = << >>
    /\ selectedRoles = ALL_ROLES

ServerNext == \E date \in Dates : apiData(date)

SpecServer == ServerInit /\ [][ServerNext]_vars

-----------------------------------------------------------------------------
(* Claims about scoring *)

\* the heroes of a result, as a set
HeroesOf(res) == { res[i].hero : i \in DOMAIN res }

\* a result reduced to what ranks: the candidates, their scores, their order
Ranking(res) == [ i \in DOMAIN res |-> [hero |-> res[i].hero, combined |-> res[i].combined] ]

RECURSIVE WithoutHero(_, _)
\* the result without the entry of one hero, order kept
WithoutHero(res, hero) ==
    IF res = << >> THEN << >>
    ELSE IF res[1].hero = hero THEN WithoutHero(Tail(res), hero)
         ELSE << res[1] >> \o WithoutHero(Tail(res), hero)

\* what the legacy scorer returns for the slots of the current state
legacyResults == scoreCandidates(data, Enemies(enemyPicks))

\* the slots with slot idx emptied
Emptied(picks, idx) == [picks EXCEPT ![idx].hero = NoHero]

\* the slots that hold a hero of weight 0
ZeroWeightSlots(picks) ==
    { i \in DOMAIN picks : picks[i].hero # NoHero /\ picks[i].weight = 0 }

\* some slot holds a hero with a weight above 0
SomeUsableEnemy(picks) ==
    \E i \in DOMAIN picks : picks[i].hero # NoHero /\ picks[i].weight > 0

\* hero has a record against a selected enemy of weight above 0
HasEvidence(d, picks, hero) ==
    \E r \in DOMAIN d, i \in DOMAIN picks :
        /\ d[r].hero = hero
        /\ picks[i].hero # NoHero
        /\ picks[i].weight > 0
        /\ picks[i].hero \in DOMAIN d[r].opp

\* C1: no hero that occupies an enemy slot, whatever its weight, is a candidate
\* of the current scorer or of the legacy scorer.
C1_EnemyNeverCandidate ==
    \A slug \in Range(selectedEnemySlugs(enemyPicks)) :
        /\ slug \notin HeroesOf(useCounterResults)
        /\ slug \notin HeroesOf(legacyResults)

\* C1 witness: two enemies are selected, one of them with weight 0 and with a
\* record against the other, and both scorers return candidates.
C1_Witness ==
    /\ \E i \in ZeroWeightSlots(enemyPicks) :
           HasEvidence(data, enemyPicks, enemyPicks[i].hero)
    /\ useCounterResults # << >>
    /\ legacyResults # << >>

\* C9 (as stated): a slot holding a hero with weight 0 scores like the same
\* slot left empty: same candidates, same combined scores, same order.
C9_ZeroWeightIsEmptySlot ==
    \A i \in ZeroWeightSlots(enemyPicks) :
        /\ Ranking(results(data, enemyPicks))
             = Ranking(results(data, Emptied(enemyPicks, i)))
        /\ Ranking(scoreCandidates(data, Enemies(enemyPicks)))
             = Ranking(scoreCandidates(data, Enemies(Emptied(enemyPicks, i))))

\* C9 (amended): a slot holding hero E with weight 0 scores like the same slot
\* left empty, except that E itself is no candidate while it holds the slot:
\* every other candidate, its combined score and the order are the same.
C9_ZeroWeightIsEmptySlotButExcluded ==
    \A i \in ZeroWeightSlots(enemyPicks) :
        /\ Ranking(results(data, enemyPicks))
             = Ranking(WithoutHero(results(data, Emptied(enemyPicks, i)),
                                   enemyPicks[i].hero))
        /\ Ranking(scoreCandidates(data, Enemies(enemyPicks)))
             = Ranking(WithoutHero(scoreCandidates(data, Enemies(Emptied(enemyPicks, i))),
                                   enemyPicks[i].hero))

\* C9 witness: a hero of weight 0 holds a slot, it has a record against another
\* selected enemy of weight above 0, and a candidate has a record against it.
C9_Witness ==
    \E i \in ZeroWeightSlots(enemyPicks) :
        /\ HasEvidence(data, enemyPicks, enemyPicks[i].hero)
        /\ \E c \in DOMAIN useCounterResults :
               \E e \in DOMAIN useCounterResults[c].perEnemy :
                   /\ useCounterResults[c].perEnemy[e].enemy = enemyPicks[i].hero
                   /\ useCounterResults[c].perEnemy[e].winrate # NullWinrate

\* C10: when no slot holds a hero with a weight above 0, both scorers return the
\* empty sequence.
C10_NoUsableEnemyNoResults ==
    ~SomeUsableEnemy(enemyPicks) =>
        /\ useCounterResults = << >>
        /\ legacyResults = << >>

\* C10 witness: every selected hero has weight 0, two are selected, and the
\* dataset holds a record against one of them.
C10_Witness ==
    /\ ~SomeUsableEnemy(enemyPicks)
    /\ Cardinality(ZeroWeightSlots(enemyPicks)) >= 2
    /\ \E r \in DOMAIN data, i \in ZeroWeightSlots(enemyPicks) :
           /\ enemyPicks[i].hero \in DOMAIN data[r].opp
           /\ data[r].hero \notin Range(selectedEnemySlugs(enemyPicks))

-----------------------------------------------------------------------------
(* Claims about loading *)

\* no fetch of the batch is still pending
NoPending(files) == \A i \in DOMAIN files : files[i].st # "pending"

\* the keys of a dataset
HeroKeys(d) == { d[r].hero : r \in DOMAIN d }

\* the dataset holds the hero of a well-formed file with that file's matchups
Holds(d, f) ==
    \E r \in DOMAIN d :
        /\ d[r].hero = toLowerCase(f.body.hero)
        /\ d[r].opp = MapFrom(f.body.matchups, 1, EmptyMap)

\* C2: a batch requested for a patch that is no longer the selected one is
\* discarded when it arrives: its join writes neither the dataset nor the role map.
C2_StaleBatchDiscarded ==
    [][ /\ \A b \in DOMAIN mBatches :
              (NoPending(mBatches[b].files) /\ mBatches[b].patch # patch)
                  => data' = data
        /\ \A b \in DOMAIN rBatches :
              (NoPending(rBatches[b].files) /\ rBatches[b].patch # patch)
                  => rolesByHero' = rolesByHero
      ]_vars

\* C3: while results are shown, a dataset that holds heroes and a role map that
\* holds roles both come from the batch of the selected patch.
C3_NoCrossPatchMixing ==
    TableMounted(enemyPicks) =>
        /\ data # EmptyData => dataPatch = patch
        /\ rolesByHero # EmptyRoles => rolesPatch = patch

\* C4: when a batch in which a fetch failed has settled, its join publishes a
\* dataset that omits the heroes whose fetch failed and holds every hero whose
\* file was retrieved.
C4_FailedFetchOmitsOnlyThatHero ==
    [][ \A b \in DOMAIN mBatches :
           LET files == mBatches[b].files
           IN  (NoPending(files) /\ \E i \in DOMAIN files : IsNull(files[i]))
                 => \A i \in DOMAIN files :
                       (files[i].st = "json") <=> (heroesIndexCache[i] \in HeroKeys(data'))
      ]_vars

\* C5: when a batch with a malformed file has settled, its join does not throw
\* and publishes a dataset that holds every hero of a well-formed file.
C5_MalformedFileOmittedOnly ==
    [][ \A b \in DOMAIN mBatches :
           LET files == mBatches[b].files
           IN  (NoPending(files) /\ \E i \in DOMAIN files : Throws(files[i]))
                 => /\ JoinOutcome(files) = "setData"
                    /\ \A i \in DOMAIN files :
                          (files[i].st = "json" /\ ~Throws(files[i])) => Holds(data', files[i])
      ]_vars

\* C6: a batch in which no file was retrieved ends in DataUnavailable and
\* publishes nothing; a batch in which a file parsed publishes its dataset.
C6_AllFailedLoadIsDataUnavailable ==
    [][ \A b \in DOMAIN mBatches :
           LET files == mBatches[b].files
           IN  NoPending(files)
                 => /\ (\A i \in DOMAIN files : IsNull(files[i]))
                          => /\ JoinOutcome(files) = "DataUnavailable"
                             /\ data' = data
                    /\ (\E i \in DOMAIN files : files[i].st = "json")
                          => JoinOutcome(files) = "setData"
      ]_vars

\* C7: selecting a patch whose dataset has been published before starts no
\* batch and makes that dataset the current one.
C7_ReselectUsesCache ==
    [][ (patch' # patch /\ patch' \in loaded)
          => (mBatches' = mBatches /\ dataPatch' = patch')
      ]_vars

\* C8: the dataset starts as the not-yet-loaded value, and every write of it is
\* the complete result of a batch all of whose fetches have settled.
C8_NoPartialDataset ==
    /\ data = EmptyData
    /\ [][ data' # data
             => \E b \in DOMAIN mBatches :
                   /\ NoPending(mBatches[b].files)
                   /\ data' = AccFrom(mBatches[b].files, 1, EmptyData)
         ]_vars

\* C8 witness: a dataset has been published while another batch is half
\* settled: one of its files has arrived and is not part of the dataset.
C8_Witness ==
    /\ dataPatch # NoPatch
    /\ data # EmptyData
    /\ \E b \in DOMAIN mBatches :
          /\ mBatches[b].patch # dataPatch
          /\ \E i \in DOMAIN heroesIndexCache :
                /\ mBatches[b].files[i].st = "json"
                /\ ~Throws(mBatches[b].files[i])
                /\ ~Holds(data, mBatches[b].files[i])
          /\ \E i \in DOMAIN heroesIndexCache : mBatches[b].files[i].st = "pending"

-----------------------------------------------------------------------------
(* Claims about the score of one candidate *)

\* the entry of a hero in a result
EntryOf(res, hero) == res[CHOOSE c \in DOMAIN res : res[c].hero = hero]

\* the winrate a result entry reports against one enemy
BreakdownOf(entry, enemy) ==
    entry.perEnemy[CHOOSE e \in DOMAIN entry.perEnemy : entry.perEnemy[e].enemy = enemy].winrate

\* the opponent map the dataset holds for a hero
OppOf(d, hero) == d[CHOOSE r \in DOMAIN d : d[r].hero = hero].opp

\* the slots that hold a hero
FilledSlots(picks) == { i \in DOMAIN picks : picks[i].hero # NoHero }

\* C11 for one scorer: res is its result for the slots of the state, without(i)
\* its result with slot i emptied, floor the lowest score it can give.
\* No record against E: the entry for E is null and the score is the one
\* without E.  A record of 0 % against E: the entry is the number 0, and with a
\* weight above 0 the score moves below the one without E (unless that one is
\* at the floor already).
MissingIsNotZero(res, without(_), floor) ==
    \A c \in DOMAIN res, i \in FilledSlots(enemyPicks) :
        LET H   == res[c].hero
            E   == enemyPicks[i].hero
            opp == OppOf(data, H)
            w   == without(i)
        IN  /\ E \notin DOMAIN opp =>
                 /\ BreakdownOf(res[c], E) = NullWinrate
                 /\ H \in HeroesOf(w)
                 /\ EntryOf(w, H).combined = res[c].combined
            /\ (E \in DOMAIN opp /\ opp[E] = 0) =>
                 /\ BreakdownOf(res[c], E) = 0
                 /\ BreakdownOf(res[c], E) # NullWinrate
                 /\ (enemyPicks[i].weight > 0 /\ H \in HeroesOf(w)) =>
                       /\ res[c].combined <= EntryOf(w, H).combined
                       /\ EntryOf(w, H).combined > floor
                            => res[c].combined < EntryOf(w, H).combined

\* the current scorer with slot i emptied
ResultsWithout(i) == results(data, Emptied(enemyPicks, i))

\* the legacy scorer with slot i emptied
LegacyWithout(i) == scoreCandidates(data, Enemies(Emptied(enemyPicks, i)))

\* C11: a missing record is reported as null and adds nothing to the score; a
\* record of 0 % is reported as 0 and does count; in both scorers.
C11_MissingIsUnknownNotZero ==
    /\ MissingIsNotZero(useCounterResults, ResultsWithout, 500 * ClampLo)
    /\ MissingIsNotZero(legacyResults, LegacyWithout, 0)

\* C11 witness: a candidate of both scorers has no record against one selected
\* enemy and a record of 0 % against another one of weight above 0.
C11_Witness ==
    \E c \in DOMAIN useCounterResults, i, j \in FilledSlots(enemyPicks) :
        LET H == useCounterResults[c].hero
        IN  /\ H \in HeroesOf(legacyResults)
            /\ enemyPicks[i].hero \notin DOMAIN OppOf(data, H)
            /\ enemyPicks[j].hero \in DOMAIN OppOf(data, H)
            /\ OppOf(data, H)[enemyPicks[j].hero] = 0
            /\ enemyPicks[j].weight > 0

\* C12: a hero with a record against selected enemy A of weight above 0 and
\* none against selected enemy B gets the combined score it gets with B's slot
\* emptied, whatever the weight of B.
C12_MissingEnemyRenormalized ==
    \A i, j \in FilledSlots(enemyPicks), H \in HeroKeys(data) :
        ( /\ i # j
          /\ H \notin Range(selectedEnemySlugs(enemyPicks))
          /\ enemyPicks[i].hero \in DOMAIN OppOf(data, H)
          /\ enemyPicks[i].weight > 0
          /\ enemyPicks[j].hero \notin DOMAIN OppOf(data, H) )
        => /\ H \in HeroesOf(useCounterResults)
           /\ H \in HeroesOf(ResultsWithout(j))
           /\ EntryOf(useCounterResults, H).combined = EntryOf(ResultsWithout(j), H).combined

\* C12 witness: a candidate has a record of 55 % against an enemy of weight
\* above 0 and no record against a second enemy of weight above 0.
C12_Witness ==
    \E i, j \in FilledSlots(enemyPicks), H \in HeroesOf(useCounterResults) :
        /\ i # j
        /\ enemyPicks[i].hero \in DOMAIN OppOf(data, H)
        /\ OppOf(data, H)[enemyPicks[i].hero] = 110
        /\ enemyPicks[i].weight > 0
        /\ enemyPicks[j].hero \notin DOMAIN OppOf(data, H)
        /\ enemyPicks[j].weight > 0

\* C13: a hero without a record against a selected enemy of weight above 0 (its
\* weight total is 0) is in the result of neither scorer, so every hero in a
\* result has a weight total above 0.
C13_ZeroWeightTotalAbsent ==
    \A H \in HeroKeys(data) :
        ~HasEvidence(data, enemyPicks, H) =>
            /\ H \notin HeroesOf(useCounterResults)
            /\ H \notin HeroesOf(legacyResults)

\* C13 witness: an enemy of weight above 0 is selected, and a hero that is no
\* selected enemy has a record against a selected enemy of weight 0 only and is
\* absent from both results.
C13_Witness ==
    \E H \in HeroKeys(data), i \in ZeroWeightSlots(enemyPicks) :
        /\ SomeUsableEnemy(enemyPicks)
        /\ H \notin Range(selectedEnemySlugs(enemyPicks))
        /\ enemyPicks[i].hero \in DOMAIN OppOf(data, H)
        /\ ~HasEvidence(data, enemyPicks, H)
        /\ H \notin HeroesOf(useCounterResults)
        /\ H \notin HeroesOf(legacyResults)

RECURSIVE SumOf(_, _)
\* the sum of f over the finite set S
SumOf(f, S) ==
    IF S = {} THEN 0
    ELSE LET x == CHOOSE x \in S : TRUE IN f[x] + SumOf(f, S \ {x})

\* the slots whose enemy the hero has a record against
RecordSlots(H) == { i \in FilledSlots(enemyPicks) : enemyPicks[i].hero \in DOMAIN OppOf(data, H) }

\* the winrate (half percents) of H against the enemy of slot i
WinrateAt(H, i) == OppOf(data, H)[enemyPicks[i].hero]

\* weight times log-odds of the clamped winrate, summed over the record slots
LogOddsSum(H) ==
    SumOf([ i \in RecordSlots(H) |->
              enemyPicks[i].weight * LnOdds[clamp(WinrateAt(H, i), ClampLo, ClampHi)] ],
          RecordSlots(H))

\* the weights summed over the record slots
WeightSum(H) == SumOf([ i \in RecordSlots(H) |-> enemyPicks[i].weight ], RecordSlots(H))

\* C14: for every candidate of the current scorer the combined score, taken
\* back to log-odds, is the weighted mean of the log-odds of the clamped
\* winrates over the enemies with a record: it lies in the half-percent step
\* whose log-odds bracket LogOddsSum / WeightSum.  Against a single enemy the
\* score is the clamped winrate itself (55 % gives 55); 55 % at weight 1 with
\* 40 % at weight 0.5 gives 49.97 to two decimals.
C14_CombinedIsWeightedLogOddsMean ==
    \A c \in DOMAIN useCounterResults :
        LET H   == useCounterResults[c].hero
            num == LogOddsSum(H)
            den == WeightSum(H)
            pct == useCounterResults[c].combined
            k   == pct \div 500
        IN  /\ den > 0
            /\ k \in ClampLo..ClampHi
            /\ LnOdds[k] * den <= num
            /\ IF k = ClampHi THEN pct = 500 * ClampHi /\ num = LnOdds[ClampHi] * den
               ELSE num < LnOdds[k + 1] * den
            /\ \A i \in RecordSlots(H) :
                   (\A j \in RecordSlots(H) : j = i \/ enemyPicks[j].weight = 0)
                       => pct = 500 * clamp(WinrateAt(H, i), ClampLo, ClampHi)
            /\ \A i, j \in RecordSlots(H) :
                   ( /\ RecordSlots(H) = {i, j}
                     /\ WinrateAt(H, i) = 110 /\ enemyPicks[i].weight = 10
                     /\ WinrateAt(H, j) = 80 /\ enemyPicks[j].weight = 5 )
                   => pct \in 49960..49970

\* C14 witness: juggernaut is scored against one enemy of weight 1 with 55 %
\* and one of weight 0.5 with 40 %.
C14_Witness ==
    /\ "juggernaut" \in HeroesOf(useCounterResults)
    /\ \E i, j \in RecordSlots("juggernaut") :
           /\ WinrateAt("juggernaut", i) = 110 /\ enemyPicks[i].weight = 10
           /\ WinrateAt("juggernaut", j) = 80 /\ enemyPicks[j].weight = 5
    /\ EntryOf(useCounterResults, "juggernaut").combined \in 49960..49970

\* a result in which no entry has a lower combined score than the next one
Descending(res) ==
    \A c \in DOMAIN res : c + 1 \in DOMAIN res => res[c].combined >= res[c + 1].combined

\* C15: the result of either scorer is ordered by combined score, descending.
C15_SortedByCombinedDescending ==
    /\ Descending(useCounterResults)
    /\ Descending(legacyResults)

\* C15 witness: both scorers return two candidates with different scores, the
\* dataset lists the lower one first, and the result lists it last.
C15_Witness ==
    /\ Len(useCounterResults) >= 2
    /\ useCounterResults[1].combined > useCounterResults[2].combined
    /\ Len(legacyResults) >= 2
    /\ legacyResults[1].combined > legacyResults[2].combined
    /\ \E r1, r2 \in DOMAIN data :
           /\ r1 < r2
           /\ data[r1].hero = useCounterResults[2].hero
           /\ data[r2].hero = useCounterResults[1].hero
           /\ data[r1].hero = legacyResults[2].hero
           /\ data[r2].hero = legacyResults[1].hero

-----------------------------------------------------------------------------
(* Claims about the role filter *)

\* what the mounted ResultsTable lists
displayed == displayedResults(useCounterResults, rolesByHero, selectedRoles)

\* C16: with every role selected, or none, the table lists the scored results
\* unchanged, whatever the role map holds.
C16_FilterPassThrough ==
    ( /\ TableMounted(enemyPicks)
      /\ Range(selectedRoles) = Range(ALL_ROLES) \/ Range(selectedRoles) = {} )
    => displayed = useCounterResults

\* C16 witness: no role is selected, the roles are loaded, and a candidate
\* has no roles in the role map.
C16_Witness ==
    /\ TableMounted(enemyPicks)
    /\ selectedRoles = << >>
    /\ rolesByHero # EmptyRoles
    /\ \E c \in DOMAIN useCounterResults :
           RolesFor(rolesByHero, useCounterResults[c].hero) = << >>

\* C17: while some but not all roles are selected, a candidate is listed
\* exactly when the role map gives it a role that is selected; a candidate
\* the role map does not hold, or holds with no roles, is not listed.
C17_ActiveFilterKeepsMatchingRoles ==
    ( /\ TableMounted(enemyPicks)
      /\ Range(selectedRoles) # {}
      /\ Range(selectedRoles) # Range(ALL_ROLES) )
    => \A c \in DOMAIN useCounterResults :
           LET H == useCounterResults[c].hero
           IN  /\ H \in HeroesOf(displayed)
                     <=> /\ H \in DOMAIN rolesByHero
                         /\ Range(rolesByHero[H]) \cap Range(selectedRoles) # {}
               /\ H \notin DOMAIN rolesByHero => H \notin HeroesOf(displayed)
               /\ (H \in DOMAIN rolesByHero /\ rolesByHero[H] = << >>)
                     => H \notin HeroesOf(displayed)

\* C17 witness: the filter is active with the roles loaded; one candidate is
\* listed for a selected role and one that the role map does not hold is not.
C17_Witness ==
    /\ TableMounted(enemyPicks)
    /\ isFilteringActive(selectedRoles)
    /\ \E c1, c2 \in DOMAIN useCounterResults :
           /\ useCounterResults[c1].hero \in HeroesOf(displayed)
           /\ useCounterResults[c2].hero \notin DOMAIN rolesByHero
           /\ useCounterResults[c2].hero \notin HeroesOf(displayed)

RECURSIVE IsSubSeq(_, _)
\* a is b with some entries left out
IsSubSeq(a, b) ==
    IF a = << >> THEN TRUE
    ELSE IF b = << >> THEN FALSE
    ELSE IF a[1] = b[1] THEN IsSubSeq(Tail(a), Tail(b))
    ELSE IsSubSeq(a, Tail(b))

\* C18: what the table lists is a subsequence of the scored results: the
\* filter drops candidates and never reorders them.
C18_FilterKeepsOrder ==
    TableMounted(enemyPicks) => IsSubSeq(displayed, useCounterResults)

\* C18 witness: the filter is active and two candidates with different scores
\* pass it.
C18_Witness ==
    /\ TableMounted(enemyPicks)
    /\ isFilteringActive(selectedRoles)
    /\ Len(displayed) >= 2
    /\ displayed[1].combined > displayed[2].combined

-----------------------------------------------------------------------------
(* Claims about loading the roles *)

\* a role file that is missing, failed, or lacks the hero or the list of roles
BadRoleFile(f) ==
    \/ f.st = "null"
    \/ f.st = "json" /\ ("hero" \notin DOMAIN f.body \/ "roles" \notin DOMAIN f.body)

\* C19: when a role batch with a missing or malformed file has settled, the
\* load completes: the role map is set, the hero of every such file has no
\* roles in it, and every hero with a well-formed file has the roles of its file.
C19_BadRoleFileGivesEmptyRoles ==
    [][ \A b \in DOMAIN rBatches :
          LET files == rBatches[b].files
          IN  (NoPending(files) /\ \E i \in DOMAIN files : BadRoleFile(files[i]))
              => /\ Len(rBatches') < Len(rBatches)
                 /\ rolesPatch' = rBatches[b].patch
                 /\ \A i \in DOMAIN files :
                       LET slug == heroesIndexCache[i]
                       IN  IF BadRoleFile(files[i])
                           THEN slug \notin DOMAIN rolesByHero' \/ rolesByHero'[slug] = << >>
                           ELSE /\ slug \in DOMAIN rolesByHero'
                                /\ rolesByHero'[slug] = files[i].body.roles
      ]_vars

\* C19 witness: the role load has completed, axe's file could not be used,
\* zeus has its roles, and the active filter lists zeus.
C19_Witness ==
    /\ TableMounted(enemyPicks)
    /\ rolesPatch = patch
    /\ rBatches = << >>
    /\ "axe" \notin DOMAIN rolesByHero
    /\ "zeus" \in DOMAIN rolesByHero
    /\ rolesByHero["zeus"] # << >>
    /\ isFilteringActive(selectedRoles)
    /\ "zeus" \in HeroesOf(displayed)

-----------------------------------------------------------------------------
(* Claims about load cycles *)

\* C20: within a batch a file is fetched once: a settled fetch keeps its
\* outcome, no fetch starts while the patch stays the same, and a dataset a
\* batch publishes lacks every hero whose fetch failed in it.  A change of
\* the patch starts a batch that fetches every hero's file again.
C20_OneFetchPerCycle ==
    [][ /\ patch' = patch => Len(mBatches') <= Len(mBatches)
        /\ Len(mBatches') = Len(mBatches) =>
               \A b \in DOMAIN mBatches, i \in DOMAIN heroesIndexCache :
                   mBatches[b].files[i].st # "pending"
                       => mBatches'[b].files[i] = mBatches[b].files[i]
        /\ \A b \in DOMAIN mBatches :
               (NoPending(mBatches[b].files) /\ data' # data)
                   => \A i \in DOMAIN heroesIndexCache :
                          IsNull(mBatches[b].files[i]) => heroesIndexCache[i] \notin HeroKeys(data')
        /\ patch' # patch =>
               mBatches' = Append(mBatches,
                                  [ patch |-> patch',
                                    files |-> [ i \in DOMAIN heroesIndexCache |-> [st |-> "pending"] ] ])
      ]_vars

\* C20 witness: the published dataset of the selected patch lacks axe, whose
\* fetch failed; the patch was selected again, and in the new batch axe's file
\* has been retrieved.
C20_Witness ==
    /\ dataPatch = patch
    /\ "axe" \notin HeroKeys(data)
    /\ "zeus" \in HeroKeys(data)
    /\ \E b \in DOMAIN mBatches :
           /\ mBatches[b].patch = patch
           /\ mBatches[b].files[1].st = "json"
           /\ ~Throws(mBatches[b].files[1])

-----------------------------------------------------------------------------
(* Claims about ties, the breakdown and the two scorers *)

\* the place of a hero in the dataset's insertion order
PlaceOf(d, hero) == CHOOSE r \in DOMAIN d : d[r].hero = hero

\* a result in which candidates of equal combined score keep the order in
\* which the dataset lists them
TiesInDataOrder(res) ==
    \A c \in DOMAIN res :
        (c + 1 \in DOMAIN res /\ res[c].combined = res[c + 1].combined)
            => PlaceOf(data, res[c].hero) < PlaceOf(data, res[c + 1].hero)

\* C21: the order of a result is fixed by the dataset and the picks: it is
\* descending by combined score, and candidates of equal score come in the
\* order in which the dataset lists them; in both scorers.
C21_TiesKeepInsertionOrder ==
    /\ Descending(useCounterResults) /\ TiesInDataOrder(useCounterResults)
    /\ Descending(legacyResults) /\ TiesInDataOrder(legacyResults)

\* C21 witness: two candidates have the same combined score in both scorers.
C21_Witness ==
    /\ Len(useCounterResults) >= 2
    /\ useCounterResults[1].combined = useCounterResults[2].combined
    /\ Len(legacyResults) >= 2
    /\ legacyResults[1].combined = legacyResults[2].combined

\* the enemy columns of the table header: enemies.map((e) => <th key={e.slug}>)
\* over enemyPicks.map((p) => p.hero).filter(Boolean)
HeaderColumns == selectedEnemySlugs(enemyPicks)

\* the enemy cells of one row: r.perEnemy.map((pe) => <td key={pe.enemy}>)
RowColumns(entry) == [ e \in DOMAIN entry.perEnemy |-> entry.perEnemy[e].enemy ]

\* C27: the breakdown of every candidate has one entry per slot that holds a
\* hero, in slot order, an entry of null where the candidate has no record, so
\* the enemy cells of every row are the enemy columns of the header, one to one.
C27_BreakdownAlignsWithHeader ==
    \A c \in DOMAIN useCounterResults :
        LET entry == useCounterResults[c]
            opp   == OppOf(data, entry.hero)
        IN  /\ Len(entry.perEnemy) = Cardinality(FilledSlots(enemyPicks))
            /\ RowColumns(entry) = HeaderColumns
            /\ \A e \in DOMAIN entry.perEnemy :
                   entry.perEnemy[e].winrate =
                       IF HeaderColumns[e] \in DOMAIN opp THEN opp[HeaderColumns[e]]
                       ELSE NullWinrate
            /\ \A i, j \in FilledSlots(enemyPicks) :
                   i < j => \E a, b \in DOMAIN entry.perEnemy :
                               /\ a < b
                               /\ entry.perEnemy[a].enemy = enemyPicks[i].hero
                               /\ entry.perEnemy[b].enemy = enemyPicks[j].hero

\* C27 witness: two slots hold a hero, and a candidate has no record against
\* the enemy of the first and a record against the enemy of the second: its
\* breakdown is a null entry followed by a number.
C27_Witness ==
    \E c \in DOMAIN useCounterResults :
        /\ Len(HeaderColumns) = 2
        /\ Len(useCounterResults[c].perEnemy) = 2
        /\ useCounterResults[c].perEnemy[1].winrate = NullWinrate
        /\ useCounterResults[c].perEnemy[2].winrate # NullWinrate

\* a result entry without its combined score and the deprecated matchShare
Uncombined(entry) == [hero |-> entry.hero, perEnemy |-> entry.perEnemy]

\* C29: on the same dataset and the same enemies the legacy scorer and the
\* current scorer return the same candidates with the same breakdowns; an
\* entry of one differs from the entry of the other in the combined score
\* alone (and in the constant matchShare field of the legacy entry).
C29_ScorersAgreeOnCandidates ==
    /\ Len(useCounterResults) = Len(legacyResults)
    /\ HeroesOf(useCounterResults) = HeroesOf(legacyResults)
    /\ Cardinality(HeroesOf(legacyResults)) = Len(legacyResults)
    /\ \A H \in HeroesOf(useCounterResults) :
           Uncombined(EntryOf(useCounterResults, H)) = Uncombined(EntryOf(legacyResults, H))
    /\ \A c \in DOMAIN legacyResults : legacyResults[c].matchShare = 0

\* C29 witness: two enemies are selected and both scorers return a candidate
\* whose breakdown is the same null entry and number in both and whose combined
\* score differs (100 % in the legacy scorer, 99.5 % in the current one).
C29_Witness ==
    /\ Len(HeaderColumns) = 2
    /\ \E H \in HeroesOf(useCounterResults) \cap HeroesOf(legacyResults) :
           /\ EntryOf(useCounterResults, H).combined # EntryOf(legacyResults, H).combined
           /\ \E e, f \in DOMAIN HeaderColumns :
                  /\ EntryOf(legacyResults, H).perEnemy[e].winrate = NullWinrate
                  /\ EntryOf(legacyResults, H).perEnemy[f].winrate # NullWinrate
                  /\ EntryOf(useCounterResults, H).perEnemy = EntryOf(legacyResults, H).perEnemy

-----------------------------------------------------------------------------
(* Claims about the conversions *)

\* C22: a candidate scored against exactly one selected enemy, of weight above
\* 0, with a record whose winrate lies strictly between 0.5 % and 99.5 %, has
\* that winrate as its combined score.
C22_SingleEnemyRoundTrip ==
    \A i \in FilledSlots(enemyPicks), H \in HeroKeys(data) :
        ( /\ FilledSlots(enemyPicks) = {i}
          /\ enemyPicks[i].weight > 0
          /\ H # enemyPicks[i].hero
          /\ enemyPicks[i].hero \in DOMAIN OppOf(data, H)
          /\ WinrateAt(H, i) > ClampLo
          /\ WinrateAt(H, i) < ClampHi )
        => /\ H \in HeroesOf(useCounterResults)
           /\ EntryOf(useCounterResults, H).combined = 500 * WinrateAt(H, i)

\* C22 witness: juggernaut is scored against axe alone, at weight 0.5, with a
\* record of 18.5 %, and its combined score is 18.5.
C22_Witness ==
    /\ \E i \in FilledSlots(enemyPicks) :
           /\ FilledSlots(enemyPicks) = {i}
           /\ enemyPicks[i].hero = "axe"
           /\ enemyPicks[i].weight = 5
    /\ OppOf(data, "juggernaut")["axe"] = 37
    /\ "juggernaut" \in HeroesOf(useCounterResults)
    /\ EntryOf(useCounterResults, "juggernaut").combined = 18500

\* C23: the log-odds of every recorded winrate are those of the winrate brought
\* into 0.5 % .. 99.5 %, hence finite, and every combined score of the current
\* scorer is a number between 0.5 and 99.5.
C23_ClampKeepsScoresFinite ==
    /\ \A r \in DOMAIN data : \A e \in DOMAIN data[r].opp :
           LET wr == data[r].opp[e]
               p  == IF wr < ClampLo THEN ClampLo ELSE IF wr > ClampHi THEN ClampHi ELSE wr
           IN  /\ pctToLogOdds(wr) = pctToLogOdds(p)
               /\ pctToLogOdds(wr) >= LnOdds[ClampLo]
               /\ pctToLogOdds(wr) <= LnOdds[ClampHi]
    /\ \A c \in DOMAIN useCounterResults :
           /\ useCounterResults[c].combined # NaN
           /\ useCounterResults[c].combined >= 500 * ClampLo
           /\ useCounterResults[c].combined <= 500 * ClampHi

\* C23 witness: juggernaut is scored with a record of 100 % or more against
\* one enemy and of 0 % against another, both of weight above 0.
C23_Witness ==
    /\ "juggernaut" \in HeroesOf(useCounterResults)
    /\ \E i, j \in FilledSlots(enemyPicks) :
           /\ enemyPicks[i].hero = "axe" /\ enemyPicks[i].weight > 0
           /\ enemyPicks[j].hero = "zeus" /\ enemyPicks[j].weight > 0
           /\ WinrateAt("juggernaut", i) >= 200
           /\ WinrateAt("juggernaut", j) = 0

-----------------------------------------------------------------------------
(* Claims about progress of a load *)

\* C24: once every fetch of the batch of the selected patch has settled, the
\* dataset of that patch is eventually published.
C24_SettledBatchIsPublished ==
    \A p \in Patches :
        ( /\ patch = p
          /\ \E b \in DOMAIN mBatches :
                 mBatches[b].patch = p /\ NoPending(mBatches[b].files) )
        ~> (dataPatch = p)

-----------------------------------------------------------------------------
(* Claims about the slots and the role selection *)

\* C25: no hero occupies two enemy slots at once.
C25_NoHeroInTwoSlots ==
    \A i, j \in FilledSlots(enemyPicks) :
        enemyPicks[i].hero = enemyPicks[j].hero => i = j

\* C25 witness: two slots are filled, and the hero of the second one is a
\* hero that the first slot could take if the picker listed it.
C25_Witness ==
    /\ enemyPicks[1].hero # NoHero
    /\ enemyPicks[2].hero # NoHero
    /\ ~PickerOffers(enemyPicks, enemyPicks[2].hero)

\* C28: a step keeps the five slots, changes one slot at most, and changes
\* either the hero or the weight of that slot, never both.
C28_SlotOperationsFrame ==
    [][ /\ Len(enemyPicks') = NumSlots
        /\ \E i \in DOMAIN enemyPicks :
              /\ \A j \in DOMAIN enemyPicks \ {i} : enemyPicks'[j] = enemyPicks[j]
              /\ \/ enemyPicks'[i].hero = enemyPicks[i].hero
                 \/ enemyPicks'[i].weight = enemyPicks[i].weight
      ]_vars

\* C28 witness: the first slot is empty with a weight of 1, which it got
\* while it held a hero or while it was empty, and the second slot holds a hero
\* at weight 0.
C28_Witness ==
    /\ enemyPicks[1] = [hero |-> NoHero, weight |-> 10]
    /\ enemyPicks[2].hero # NoHero
    /\ enemyPicks[2].weight = 0
    /\ Len(enemyPicks) = NumSlots

\* C26: the selected roles hold no role twice and only roles of ALL_ROLES, so
\* the length test of isFilteringActive is true exactly when the selection is a
\* non-empty proper subset of the vocabulary.
C26_RoleSelectionIsASet ==
    /\ Cardinality(Range(selectedRoles)) = Len(selectedRoles)
    /\ Range(selectedRoles) \subseteq Range(ALL_ROLES)
    /\ isFilteringActive(selectedRoles)
           <=> (Range(selectedRoles) # {} /\ Range(selectedRoles) # Range(ALL_ROLES))

\* C26 witness: all five roles are selected in an order other than that of
\* ALL_ROLES, which takes a role that was toggled off and on again.
C26_Witness ==
    /\ TableMounted(enemyPicks)
    /\ Len(selectedRoles) = Len(ALL_ROLES)
    /\ selectedRoles # ALL_ROLES

-----------------------------------------------------------------------------
(* Claims about the legacy server *)

\* the files of the folder
FilesOf(dir) == Range(dir.files)

\* the elements of the matchups array of a file that parsed to an object
ItemsOf(f) ==
    IF f.content.kind = "object" /\ f.content.matchups.type = "array"
    THEN Range(f.content.matchups.items) ELSE {}

\* an element with an opponent name, a numeric winrate and a numeric match count
ValidEntry(m) ==
    /\ m.type = "object"
    /\ m.opponent.type = "string" /\ m.opponent.text # ""
    /\ m.winrate.type = "number"
    /\ m.matches.type = "number"

\* the complete entries of a file
ValidOf(f) == { m \in ItemsOf(f) : ValidEntry(m) }

\* C30: a request with a date is always answered with a dataset.  Every hero
\* of the dataset is the hero of a .json file that could be read, and every
\* opponent recorded for it comes, with its winrate and match count, from a
\* complete entry of that file: no entry without an opponent name, a numeric
\* winrate or a numeric match count is recorded.  The hero of a file that is
\* unreadable, has no .json name or has no complete entry is not in the dataset, the complete
\* entries of a readable file of objects all are, and an unreadable folder
\* gives the empty dataset.
C30_LoadDataSkipsAndNeverFails ==
    /\ response.status # HandlerFailed.status
    /\ response.status = 200 =>
          LET body == response.body
          IN  /\ ~counterDir.readable => body = EmptyMap
              /\ \A h \in DOMAIN body :
                    \E f \in FilesOf(counterDir) :
                        /\ f.ext = "json"
                        /\ f.content.kind = "object"
                        /\ f.base = h
                        /\ DOMAIN body[h].opponents # {}
                        /\ \A o \in DOMAIN body[h].opponents :
                              \E m \in ValidOf(f) :
                                  /\ toLowerCase(m.opponent.text) = o
                                  /\ body[h].opponents[o] =
                                        [winrate |-> m.winrate.value,
                                         matches |-> m.matches.value]
              /\ \A f \in FilesOf(counterDir) :
                    (f.ext # "json" \/ f.content.kind # "object" \/ ValidOf(f) = {})
                        => f.base \notin DOMAIN body
              /\ \A f \in FilesOf(counterDir) :
                    (f.ext = "json" /\ f.content.kind = "object" /\ JsNull \notin ItemsOf(f))
                        => \A m \in ValidOf(f) :
                              /\ f.base \in DOMAIN body
                              /\ toLowerCase(m.opponent.text) \in DOMAIN body[f.base].opponents

\* C30 witness: the reply holds axe with one opponent, from a file with a
\* complete entry and an entry that lacks something, and does not hold zeus,
\* whose file is unreadable.
C30_Witness ==
    /\ response.status = 200
    /\ "axe" \in DOMAIN response.body
    /\ Cardinality(DOMAIN response.body["axe"].opponents) = 1
    /\ \E f \in FilesOf(counterDir) :
          /\ f.base = "axe"
          /\ \E m \in ItemsOf(f) : m # JsNull /\ ~ValidEntry(m)
    /\ \E f \in FilesOf(counterDir) : f.base = "zeus" /\ f.content = FileUnreadable
    /\ "zeus" \notin DOMAIN response.body

=============================================================================
